---- MODULE Spec2Model ----
(***************************************************************************)
(* A model of the compliance event evaluation pipeline of the              *)
(* ai-grc-compliance-platform backend (backend/app): the PHI detector,     *)
(* the anomaly model file, the FAISS vector store and its files, the RAG   *)
(* pipeline with its JSON extraction, and the evaluate-event route.        *)
(*                                                                         *)
(* Text is modelled as a sequence of one-character strings, so that the    *)
(* regular expressions of the source are matched character by character.   *)
(***************************************************************************)
EXTENDS Integers, Sequences, FiniteSets, TLC

VARIABLES
    text,         \* detect_phi: the argument (NoneStr when the message is None)
    phi,          \* detect_phi: the returned dict (NoResult before the call)
    index,        \* FaissStore.index: the vectors of the in-memory index, in offset order
    chunks,       \* FaissStore.chunks: the in-memory chunk list
    index_file,   \* the file at index_path
    meta_file,    \* the file at meta_path
    pc,           \* the position of the ingesting process (add, then the steps of save)
    last,         \* the last completed call on the store and its outcome
    last_saved,   \* what the last completed save wrote (valid = FALSE before any)
    rag_in,       \* answer_with_rag: the arguments and what the embedder, the index and
                  \* the inference service do during the call
    rag,          \* answer_with_rag: the returned dict (NoResult before the call)
    STATS,        \* grc_routes.STATS: the in-memory counters
    model_file,   \* the file at MODEL_PATH
    train,        \* retrain: its position, the rows it read, its result
    trainings,    \* the number of models dumped or being dumped so far
    ev,           \* evaluate_event: the last call and its outcome (NoResult before any)
    handed,       \* the number of reports handed to save_report_to_db
    args,         \* a helper function applied on its own: its name and arguments
    ret           \* what that helper returned (NoResult before the call)

phiVars == <<text, phi>>
storeVars == <<index, chunks, index_file, meta_file, pc, last, last_saved>>
ragVars == <<rag_in, rag>>
evalVars == <<STATS, model_file, train, trainings, ev, handed>>
fnVars == <<args, ret>>
vars == <<phiVars, storeVars, ragVars, evalVars, fnVars>>

\* An optional string: NoneStr is Python's None, Some(s) the string s
NoneStr == <<>>
Some(s) == <<s>>
\* x or "" on an optional string
OrEmpty(t) == IF t = NoneStr THEN <<>> ELSE t[1]

NoResult == [called |-> FALSE]

\* ask_ollama raising; no call of answer_with_rag made or in progress
LlmRaises == [raised |-> TRUE, response |-> <<>>]
NoRagInput == [question |-> <<>>, top_k |-> 0, q_emb |-> <<>>, ties |-> "asc",
               zero_k_raises |-> FALSE, llm |-> LlmRaises]
RagIdle == rag_in = NoRagInput /\ rag = NoResult

\* no helper function applied on its own
NoArgs == [fn |-> "none"]
FnIdle == args = NoArgs /\ ret = NoResult

\* ------------------------------------------------------------------------
\* Characters and the regular-expression classes used by the source
\* ------------------------------------------------------------------------
Digits == {"0", "1", "2", "3", "4", "5", "6", "7", "8", "9"}

LowerLetters ==
    <<"a", "b", "c", "d", "e", "f", "g", "h", "i", "j", "k", "l", "m",
      "n", "o", "p", "q", "r", "s", "t", "u", "v", "w", "x", "y", "z">>

UpperLetters ==
    <<"A", "B", "C", "D", "E", "F", "G", "H", "I", "J", "K", "L", "M",
      "N", "O", "P", "Q", "R", "S", "T", "U", "V", "W", "X", "Y", "Z">>

Range(s) == {s[i] : i \in DOMAIN s}

IsDigit(c) == c \in Digits
IsLetter(c) == c \in Range(LowerLetters) \cup Range(UpperLetters)
\* \w, \s of Python's re on str
IsWordChar(c) == IsDigit(c) \/ IsLetter(c) \/ c = "_"
IsSpace(c) == c \in {" ", "\n", "\t", "\r"}

\* str.lower(), one character
LowerChar(c) ==
    IF c \in Range(UpperLetters)
    THEN LowerLetters[CHOOSE i \in DOMAIN UpperLetters : UpperLetters[i] = c]
    ELSE c

\* str.lower()
Lower(s) == [i \in DOMAIN s |-> LowerChar(s[i])]

\* s[p+1 .. p+Len(w)] = w, i.e. w occurs in s at offset p
OccursAt(s, w, p) ==
    /\ p + Len(w) <= Len(s)
    /\ \A i \in 1..Len(w) : s[p + i] = w[i]

\* Python's (w in s) on strings
Contains(s, w) == \E p \in 0..Len(s) : OccursAt(s, w, p)

\* \b at offset p (between s[p] and s[p+1]); outside the string is non-word
WordAt(s, k) == k \in 1..Len(s) /\ IsWordChar(s[k])
Boundary(s, p) == WordAt(s, p) # WordAt(s, p + 1)

\* the number of consecutive characters of s after offset p that satisfy
\* the class kind: a greedy X* of the regular-expression engine
RECURSIVE RunLen(_, _, _)
InClass(kind, c) ==
    CASE kind = "digit" -> IsDigit(c)
      [] kind = "letter" -> IsLetter(c)
      [] kind = "alnum" -> IsDigit(c) \/ IsLetter(c)
      [] kind = "space" -> IsSpace(c)
      [] kind = "mrnsep" -> c = ":" \/ c = "-" \/ IsSpace(c)
      [] kind = "local" -> IsDigit(c) \/ IsLetter(c) \/ c \in {".", "_", "%", "+", "-"}
      [] kind = "domain" -> IsDigit(c) \/ IsLetter(c) \/ c \in {".", "-"}
RunLen(kind, s, p) ==
    IF p + 1 <= Len(s) /\ InClass(kind, s[p + 1])
    THEN 1 + RunLen(kind, s, p + 1)
    ELSE 0

CharAt(s, k, c) == k \in 1..Len(s) /\ s[k] = c
\* \d{n} at offset p
DigitsAt(s, p, n) == p + n <= Len(s) /\ \A i \in 1..n : IsDigit(s[p + i])

\* ------------------------------------------------------------------------
\* phi_detector.py: the five patterns.  X_RE(s, p) is the length of the
\* match of the pattern that starts at offset p of s, or -1 when the
\* pattern does not match there.
\* ------------------------------------------------------------------------

\* SSN_RE = \b\d{3}-\d{2}-\d{4}\b
SSN_RE(s, p) ==
    IF /\ Boundary(s, p)
       /\ DigitsAt(s, p, 3) /\ CharAt(s, p + 4, "-")
       /\ DigitsAt(s, p + 4, 2) /\ CharAt(s, p + 7, "-")
       /\ DigitsAt(s, p + 7, 4)
       /\ Boundary(s, p + 11)
    THEN 11 ELSE -1

IsDateSep(s, k) == CharAt(s, k, "/") \/ CharAt(s, k, "-")

\* DOB_RE = \b(?:\d{1,2}[/-]\d{1,2}[/-]\d{2,4})\b
DOB_RE(s, p) ==
    LET d1 == RunLen("digit", s, p)
        q1 == p + d1 + 1
        d2 == RunLen("digit", s, q1)
        q2 == q1 + d2 + 1
        d3 == RunLen("digit", s, q2)
    IN  IF /\ Boundary(s, p)
           /\ d1 \in 1..2 /\ IsDateSep(s, q1)
           /\ d2 \in 1..2 /\ IsDateSep(s, q2)
           /\ d3 \in 2..4 /\ Boundary(s, q2 + d3)
        THEN q2 + d3 - p ELSE -1

\* [-.\s]? at offset q: the offset after it
OptSep(s, q) ==
    IF q + 1 <= Len(s) /\ (s[q + 1] \in {"-", "."} \/ IsSpace(s[q + 1]))
    THEN q + 1 ELSE q

\* PHONE_RE = \b(?:\+1[-.\s]?)?(?:\(\d{3}\)|\d{3})[-.\s]?\d{3}[-.\s]?\d{4}\b
PHONE_RE(s, p) ==
    LET q0 == IF CharAt(s, p + 1, "+") /\ CharAt(s, p + 2, "1")
              THEN OptSep(s, p + 2) ELSE p
        paren == CharAt(s, q0 + 1, "(") /\ DigitsAt(s, q0 + 1, 3)
                 /\ CharAt(s, q0 + 5, ")")
        q1 == IF paren THEN q0 + 5 ELSE q0 + 3
        q2 == OptSep(s, q1)
        q3 == OptSep(s, q2 + 3)
    IN  IF /\ Boundary(s, p)
           /\ paren \/ DigitsAt(s, q0, 3)
           /\ DigitsAt(s, q2, 3)
           /\ DigitsAt(s, q3, 4)
           /\ Boundary(s, q3 + 4)
        THEN q3 + 4 - p ELSE -1

\* EMAIL_RE = \b[A-Z0-9._%+-]+@[A-Z0-9.-]+\.[A-Z]{2,}\b  (IGNORECASE)
\* The domain part is greedy: the match ends after the last dot of the
\* domain run that is followed by two or more letters and a \b.
EMAIL_RE(s, p) ==
    LET l == RunLen("local", s, p)
        a == p + l + 1                       \* offset after the @
        dr == RunLen("domain", s, a)
        EndAfter(k) == a + k + 1 + RunLen("letter", s, a + k + 1)
        ks == {k \in 1..(dr - 1) :
                 /\ CharAt(s, a + k + 1, ".")
                 /\ RunLen("letter", s, a + k + 1) >= 2
                 /\ Boundary(s, EndAfter(k))}
    IN  IF /\ Boundary(s, p)
           /\ l >= 1 /\ CharAt(s, a, "@")
           /\ ks # {}
        THEN EndAfter(CHOOSE k \in ks : \A j \in ks : j <= k) - p
        ELSE -1

\* MRN_RE = \bMRN[:\s-]*\d{5,12}\b  (IGNORECASE)
MRN_RE(s, p) ==
    LET q == p + 3 + RunLen("mrnsep", s, p + 3)
        d == RunLen("digit", s, q)
    IN  IF /\ Boundary(s, p)
           /\ p + 3 <= Len(s)
           /\ Lower(SubSeq(s, p + 1, p + 3)) = <<"m", "r", "n">>
           /\ d \in 5..12
           /\ Boundary(s, q + d)
        THEN q + d - p ELSE -1

MatchLen(kind, s, p) ==
    CASE kind = "email" -> EMAIL_RE(s, p)
      [] kind = "phone" -> PHONE_RE(s, p)
      [] kind = "ssn" -> SSN_RE(s, p)
      [] kind = "dob" -> DOB_RE(s, p)
      [] kind = "mrn" -> MRN_RE(s, p)

\* re.findall: the non-overlapping matches, scanning from the left
RECURSIVE FindAllFrom(_, _, _)
FindAllFrom(kind, s, p) ==
    IF p >= Len(s) THEN <<>>
    ELSE LET n == MatchLen(kind, s, p)
         IN  IF n > 0
             THEN <<SubSeq(s, p + 1, p + n)>> \o FindAllFrom(kind, s, p + n)
             ELSE FindAllFrom(kind, s, p + 1)

findall(kind, s) == FindAllFrom(kind, s, 0)

PatternKinds == {"email", "phone", "ssn", "dob", "mrn"}

PHI_KEYWORDS ==
    << <<"p", "a", "t", "i", "e", "n", "t">>,
       <<"d", "i", "a", "g", "n", "o", "s", "i", "s">>,
       <<"t", "r", "e", "a", "t", "m", "e", "n", "t">>,
       <<"l", "a", "b">>,
       <<"p", "r", "e", "s", "c", "r", "i", "p", "t", "i", "o", "n">>,
       <<"r", "x">>,
       <<"i", "n", "s", "u", "r", "a", "n", "c", "e">>,
       <<"m", "e", "d", "i", "c", "a", "l", " ", "r", "e", "c", "o", "r", "d">>,
       <<"m", "r", "n">>,
       <<"s", "s", "n">>,
       <<"d", "o", "b">>,
       <<"a", "d", "d", "r", "e", "s", "s">> >>

\* a slip in the order of the tie-break: any pattern is tested first
Sensitivity_PatternFirst(matches, has_pattern, has_keywords) ==
    IF has_pattern THEN 4
    ELSE IF matches["ssn"] # <<>> \/ matches["mrn"] # <<>> THEN 5
    ELSE IF has_keywords THEN 3
    ELSE 1

\* the sensitivity heuristic of detect_phi
Sensitivity(matches, has_pattern, has_keywords) ==
    IF matches["ssn"] # <<>> \/ matches["mrn"] # <<>> THEN 5
    ELSE IF has_pattern THEN 4
    ELSE IF has_keywords THEN 3
    ELSE 1

\* detect_phi(text); t is an optional string (text = text or "")
detect_phi(t) ==
    LET s == OrEmpty(t)
        matches == [k \in PatternKinds |-> findall(k, s)]
        low == Lower(s)
        IsHit(k) == Contains(low, k)
        keyword_hits == SelectSeq(PHI_KEYWORDS, IsHit)
        has_pattern == \E k \in PatternKinds : Len(matches[k]) > 0
        has_keywords == Len(keyword_hits) > 0
    IN  [called |-> TRUE,
         has_phi |-> has_pattern \/ has_keywords,
         sensitivity |-> Sensitivity(matches, has_pattern, has_keywords),
         matches |-> matches,
         keyword_hits |-> keyword_hits]


\* ------------------------------------------------------------------------
\* Messages: concatenations of at most MaxFrags fragments
\* ------------------------------------------------------------------------
MaxFrags == 3

Fragments ==
    { <<"1", "2", "3", "-", "4", "5", "-", "6", "7", "8", "9">>,
      <<"M", "R", "N", ":", "1", "2", "3", "4", "5">>,
      <<"a", "@", "b", ".", "c", "o">>,
      <<"5", "5", "5", "-", "1", "2", "3", "-", "4", "5", "6", "7">>,
      <<"1", "/", "2", "/", "9", "9">>,
      <<"p", "a", "t", "i", "e", "n", "t">>,
      <<"R", "x">>,
      <<" ">>,
      <<"z">>,
      <<"7">> }

RECURSIVE Concat(_)
Concat(ss) == IF ss = <<>> THEN <<>> ELSE Head(ss) \o Concat(Tail(ss))

SeqsUpTo(S, n) == UNION {[1..k -> S] : k \in 0..n}

Messages == {Concat(fs) : fs \in SeqsUpTo(Fragments, MaxFrags)}

\* ------------------------------------------------------------------------
\* vector_store.py: FaissStore (an IndexFlatIP and the parallel chunk list)
\* and its two files
\* ------------------------------------------------------------------------
\* the dimension the store is constructed with (scaled down)
Dim == 2
\* most entries the index and the chunk list are let grow to
MaxEntries == 2
\* most rows, and most chunks, of one add
MaxRows == 2

\* Vector components are in tenths, inner products in hundredths.
\* the vectors of width w with one component 1.0 and the others 0
OneHot(w) == {[i \in 1..w |-> IF i = k THEN 10 ELSE 0] : k \in 1..w}

\* the arrays handed to add: a 1-d array, or an n x w matrix of rows
Embeddings(w) ==
    {[ndim |-> 2, width |-> w, rows |-> r] : r \in SeqsUpTo(OneHot(w), MaxRows)}
EmbeddingInputs ==
    {[ndim |-> 1, width |-> 0, rows |-> <<>>]} \cup Embeddings(Dim) \cup Embeddings(Dim + 1)

StoreChunkTexts == {<<"a">>, <<"b">>}
ChunkInputs == SeqsUpTo(StoreChunkTexts, MaxRows)

Absent == [state |-> "absent", data |-> <<>>]
\* opened for writing and not yet completely written
Partial == [state |-> "partial", data |-> <<>>]
Complete(d) == [state |-> "complete", data |-> d]

\* STATS at import; no retrain running; no event evaluated; no model file
NoStats == [events_seen |-> 0, phi_events |-> 0, anomalies |-> 0, escalations |-> 0]
NoTrain == [pc |-> "idle", rows |-> 0, result |-> "none"]
EvalIdle ==
    /\ STATS = NoStats
    /\ model_file = Absent
    /\ train = NoTrain
    /\ trainings = 0
    /\ ev = NoResult
    /\ handed = 0

NoCall == [op |-> "none", raised |-> FALSE, ndim |-> 0, width |-> 0, n |-> 0, m |-> 0,
           pre_n |-> 0, pre_m |-> 0, at |-> "none"]

StoreIdle ==
    /\ index = <<>>
    /\ chunks = <<>>
    /\ index_file = Absent
    /\ meta_file = Absent
    /\ pc = "idle"
    /\ last = NoCall
    /\ last_saved = [valid |-> FALSE, index |-> <<>>, chunks |-> <<>>]

\* FaissStore.add(embeddings, chunks) on the store (ix, cs)
FaissStore_add(ix, cs, embeddings, new_chunks) ==
    IF embeddings.ndim # 2 \/ embeddings.width # Dim
    THEN [raised |-> TRUE, index |-> ix, chunks |-> cs]
    ELSE [raised |-> FALSE, index |-> ix \o embeddings.rows, chunks |-> cs \o new_chunks]

FaissStore_load_IndexOnly(ix, cs, ifile, mfile) ==
    IF ifile.state # "complete"
    THEN [raised |-> TRUE, index |-> ix, chunks |-> cs]
    ELSE [raised |-> FALSE, index |-> ifile.data, chunks |-> cs]

\* FaissStore.load() on the store (ix, cs): read_index raises on a missing
\* or truncated file; then open/pickle.load raise on a missing or truncated
\* file, after self.index has been assigned
FaissStore_load(ix, cs, ifile, mfile) ==
    IF ifile.state # "complete"
    THEN [raised |-> TRUE, index |-> ix, chunks |-> cs]
    ELSE IF mfile.state # "complete"
    THEN [raised |-> TRUE, index |-> ifile.data, chunks |-> cs]
    ELSE [raised |-> FALSE, index |-> ifile.data, chunks |-> mfile.data]

\* store.add(embeddings, chunks), the first half of ingest_pdf_into_faiss
Add ==
    /\ pc = "idle"
    /\ \E e \in EmbeddingInputs, c \in ChunkInputs :
         LET r == FaissStore_add(index, chunks, e, c)
         IN  /\ Len(r.index) <= MaxEntries
             /\ Len(r.chunks) <= MaxEntries
             /\ index' = r.index
             /\ chunks' = r.chunks
             /\ pc' = IF r.raised THEN "idle" ELSE "added"
             /\ last' = [NoCall EXCEPT !.op = "add", !.raised = r.raised,
                                       !.ndim = e.ndim, !.width = e.width,
                                       !.n = Len(e.rows), !.m = Len(c),
                                       !.pre_n = Len(index), !.pre_m = Len(chunks)]
    /\ UNCHANGED <<index_file, meta_file, last_saved, phiVars, ragVars, evalVars, fnVars>>

\* FaissStore.save, step 1: faiss.write_index opens index_path for writing
SaveOpenIndex ==
    /\ pc = "added"
    /\ index_file' = Partial
    /\ pc' = "index_open"
    /\ UNCHANGED <<index, chunks, meta_file, last, last_saved, phiVars, ragVars, evalVars, fnVars>>

\* FaissStore.save, step 2: faiss.write_index has written the whole index
SaveWriteIndex ==
    /\ pc = "index_open"
    /\ index_file' = Complete(index)
    /\ pc' = "index_written"
    /\ UNCHANGED <<index, chunks, meta_file, last, last_saved, phiVars, ragVars, evalVars, fnVars>>

\* FaissStore.save, step 3: open(meta_path, "wb") truncates the chunk file
SaveOpenMeta ==
    /\ pc = "index_written"
    /\ meta_file' = Partial
    /\ pc' = "meta_open"
    /\ UNCHANGED <<index, chunks, index_file, last, last_saved, phiVars, ragVars, evalVars, fnVars>>

\* FaissStore.save, step 4: pickle.dump has written the chunk list; save returns
SaveDumpMeta ==
    /\ pc = "meta_open"
    /\ meta_file' = Complete(chunks)
    /\ pc' = "idle"
    /\ last' = [NoCall EXCEPT !.op = "save"]
    /\ last_saved' = [valid |-> TRUE, index |-> index, chunks |-> chunks]
    /\ UNCHANGED <<index, chunks, index_file, phiVars, ragVars, evalVars, fnVars>>

\* FaissStore.load() called on the live store
Load ==
    /\ pc = "idle"
    /\ LET r == FaissStore_load(index, chunks, index_file, meta_file)
       IN  /\ index' = r.index
           /\ chunks' = r.chunks
           /\ last' = [NoCall EXCEPT !.op = "load", !.raised = r.raised]
    /\ UNCHANGED <<index_file, meta_file, pc, last_saved, phiVars, ragVars, evalVars, fnVars>>

\* the process dies: the in-memory store is lost, the files stay as they are
Crash ==
    /\ pc \notin {"down", "failed"}
    /\ index' = <<>>
    /\ chunks' = <<>>
    /\ pc' = "down"
    /\ last' = [NoCall EXCEPT !.op = "crash", !.at = pc]
    /\ UNCHANGED <<index_file, meta_file, last_saved, phiVars, ragVars, evalVars, fnVars>>

\* store_singleton.py at import: a new FaissStore, loaded when both files exist
Startup ==
    /\ pc = "down"
    /\ LET both == index_file.state # "absent" /\ meta_file.state # "absent"
           r == IF both THEN FaissStore_load(<<>>, <<>>, index_file, meta_file)
                ELSE [raised |-> FALSE, index |-> <<>>, chunks |-> <<>>]
       IN  /\ index' = r.index
           /\ chunks' = r.chunks
           /\ pc' = IF r.raised THEN "failed" ELSE "idle"
           /\ last' = [NoCall EXCEPT !.op = "startup", !.raised = r.raised, !.at = last.at]
    /\ UNCHANGED <<index_file, meta_file, last_saved, phiVars, ragVars, evalVars, fnVars>>

InitStore ==
    /\ StoreIdle
    /\ RagIdle
    /\ EvalIdle
    /\ FnIdle
    /\ text = NoneStr
    /\ phi = NoResult

NextStore ==
    \/ Add
    \/ SaveOpenIndex
    \/ SaveWriteIndex
    \/ SaveOpenMeta
    \/ SaveDumpMeta
    \/ Load
    \/ Crash
    \/ Startup

SpecStore == InitStore /\ [][NextStore]_vars

\* ------------------------------------------------------------------------
\* json_extract.py: extract_json_string and parse_llm_json, on characters
\* ------------------------------------------------------------------------
\* the number of consecutive characters of s of class kind that end at e
RECURSIVE RunLenBack(_, _, _)
RunLenBack(kind, s, e) ==
    IF e >= 1 /\ InClass(kind, s[e]) THEN 1 + RunLenBack(kind, s, e - 1) ELSE 0

\* str.strip()
Strip(s) ==
    LET lead == RunLen("space", s, 0)
    IN  IF lead = Len(s) THEN <<>>
        ELSE SubSeq(s, lead + 1, Len(s) - RunLenBack("space", s, Len(s)))

\* the backquote character (written as a name: the character itself cannot
\* stand in a string here)
BQ == "BQ"
\* the three backquotes of a markdown fence
Fence == <<BQ, BQ, BQ>>

\* re.sub(r"^FENCE[a-zA-Z0-9]*\s*", "", s) on an s that starts with a fence
DropLeadingFence(s) ==
    LET a == 3 + RunLen("alnum", s, 3)
        b == a + RunLen("space", s, a)
    IN  SubSeq(s, b + 1, Len(s))

\* re.sub(r"\s*FENCE$", "", s)
DropTrailingFence(s) ==
    IF Len(s) >= 3 /\ OccursAt(s, Fence, Len(s) - 3)
    THEN SubSeq(s, 1, Len(s) - 3 - RunLenBack("space", s, Len(s) - 3))
    ELSE s

\* _JSON_BLOCK_RE = \{.*\} with DOTALL: from the first { to the last }
JsonBlock(s) ==
    LET opens == {i \in 1..Len(s) : s[i] = "{"}
        closes == {i \in 1..Len(s) : s[i] = "}"}
        i == CHOOSE x \in opens : \A y \in opens : x <= y
        j == CHOOSE x \in closes : \A y \in closes : y <= x
    IN  IF opens # {} /\ closes # {} /\ i < j
        THEN [found |-> TRUE, s |-> SubSeq(s, i, j)]
        ELSE [found |-> FALSE, s |-> <<>>]

\* extract_json_string(text): the extracted string, or the ValueError raised
extract_json_string(t) ==
    IF t = <<>>
    THEN [raised |-> TRUE, error |-> "Empty LLM output", s |-> <<>>]
    ELSE LET s0 == Strip(t)
             s1 == IF OccursAt(s0, Fence, 0)
                   THEN Strip(DropTrailingFence(DropLeadingFence(s0)))
                   ELSE s0
             m == JsonBlock(s1)
         IN  IF ~m.found
             THEN [raised |-> TRUE, error |-> "No JSON object found in LLM output", s |-> <<>>]
             ELSE [raised |-> FALSE, error |-> "", s |-> Strip(m.s)]

\* json.loads, for texts made of objects, arrays, strings without escapes,
\* unsigned integers and the literals null, true, false.  A decoded value is
\* [k, s, items]: k is "str", "num", "lit", "arr" or "obj"; s the characters
\* of a string, number or literal; items the elements of an array, or the
\* [key, val] pairs of an object in the order read.
JsonFail == [ok |-> FALSE, val |-> [k |-> "none", s |-> <<>>, items |-> <<>>], next |-> 0]
JsonOk(v, n) == [ok |-> TRUE, val |-> v, next |-> n]
JsonLiterals == { <<"n", "u", "l", "l">>, <<"t", "r", "u", "e">>, <<"f", "a", "l", "s", "e">> }

SkipWs(s, i) == i + RunLen("space", s, i - 1)

\* the index of the closing quote of the string whose opening quote is at i,
\* or 0: a control character inside a string is an error
RECURSIVE StringEnd(_, _)
StringEnd(s, i) ==
    IF i + 1 > Len(s) THEN 0
    ELSE IF s[i + 1] = "\"" THEN i + 1
    ELSE IF s[i + 1] \in {"\n", "\t", "\r"} THEN 0
    ELSE StringEnd(s, i + 1)

\* a string at i: [ok, val, next]
ParseString(s, i) ==
    IF i <= Len(s) /\ s[i] = "\"" /\ StringEnd(s, i) # 0
    THEN JsonOk([k |-> "str", s |-> SubSeq(s, i + 1, StringEnd(s, i) - 1), items |-> <<>>],
                StringEnd(s, i) + 1)
    ELSE JsonFail

RECURSIVE ParseValue(_, _)
RECURSIVE ParseMembers(_, _, _)
RECURSIVE ParseElements(_, _, _)

\* the value that starts at i (white space is skipped by the callers)
ParseValue(s, i) ==
    IF i > Len(s) THEN JsonFail
    ELSE IF s[i] = "\"" THEN ParseString(s, i)
    ELSE IF s[i] = "{" THEN
        LET j == SkipWs(s, i + 1)
        IN  IF j <= Len(s) /\ s[j] = "}"
            THEN JsonOk([k |-> "obj", s |-> <<>>, items |-> <<>>], j + 1)
            ELSE ParseMembers(s, j, <<>>)
    ELSE IF s[i] = "[" THEN
        LET j == SkipWs(s, i + 1)
        IN  IF j <= Len(s) /\ s[j] = "]"
            THEN JsonOk([k |-> "arr", s |-> <<>>, items |-> <<>>], j + 1)
            ELSE ParseElements(s, j, <<>>)
    ELSE IF s[i] = "0" THEN JsonOk([k |-> "num", s |-> <<"0">>, items |-> <<>>], i + 1)
    ELSE IF IsDigit(s[i]) THEN
        LET n == RunLen("digit", s, i - 1)
        IN  JsonOk([k |-> "num", s |-> SubSeq(s, i, i + n - 1), items |-> <<>>], i + n)
    ELSE IF \E l \in JsonLiterals : OccursAt(s, l, i - 1) THEN
        LET l == CHOOSE l \in JsonLiterals : OccursAt(s, l, i - 1)
        IN  JsonOk([k |-> "lit", s |-> l, items |-> <<>>], i + Len(l))
    ELSE JsonFail

\* the members of an object from the key at i on, after the pairs acc
ParseMembers(s, i, acc) ==
    LET key == ParseString(s, i)
        c == SkipWs(s, key.next)
        v == ParseValue(s, SkipWs(s, c + 1))
        e == SkipWs(s, v.next)
        pairs == Append(acc, [key |-> key.val.s, val |-> v.val])
    IN  IF ~key.ok \/ c > Len(s) \/ s[c] # ":" THEN JsonFail
        ELSE IF ~v.ok \/ e > Len(s) THEN JsonFail
        ELSE IF s[e] = "}" THEN JsonOk([k |-> "obj", s |-> <<>>, items |-> pairs], e + 1)
        ELSE IF s[e] = "," THEN ParseMembers(s, SkipWs(s, e + 1), pairs)
        ELSE JsonFail

\* the elements of an array from the value at i on, after the elements acc
ParseElements(s, i, acc) ==
    LET v == ParseValue(s, i)
        e == SkipWs(s, v.next)
        elems == Append(acc, v.val)
    IN  IF ~v.ok \/ e > Len(s) THEN JsonFail
        ELSE IF s[e] = "]" THEN JsonOk([k |-> "arr", s |-> <<>>, items |-> elems], e + 1)
        ELSE IF s[e] = "," THEN ParseElements(s, SkipWs(s, e + 1), elems)
        ELSE JsonFail

\* json.loads(s): the whole of s is one value between white space
json_loads(s) ==
    LET r == ParseValue(s, SkipWs(s, 1))
    IN  IF r.ok /\ SkipWs(s, r.next) > Len(s) THEN r ELSE JsonFail

NoJson == [k |-> "none", s |-> <<>>, items |-> <<>>]

\* parse_llm_json(text): (obj, json_str), or the ValueError raised
parse_llm_json(t) ==
    LET x == extract_json_string(t)
        r == json_loads(x.s)
    IN  IF x.raised THEN [raised |-> TRUE, error |-> x.error, obj |-> NoJson, json_str |-> <<>>]
        ELSE IF ~r.ok
        THEN [raised |-> TRUE, error |-> "Invalid JSON after extraction", obj |-> NoJson, json_str |-> <<>>]
        ELSE IF r.val.k # "obj"
        THEN [raised |-> TRUE, error |-> "Parsed JSON is not an object/dict", obj |-> NoJson, json_str |-> <<>>]
        ELSE [raised |-> FALSE, error |-> "", obj |-> r.val, json_str |-> x.s]

\* obj[key] of a decoded object (the last pair with that key, as in a dict)
HasKey(obj, key) == \E i \in DOMAIN obj.items : obj.items[i].key = key
Field(obj, key) ==
    LET last_i == CHOOSE i \in DOMAIN obj.items :
                     /\ obj.items[i].key = key
                     /\ \A j \in DOMAIN obj.items : obj.items[j].key = key => j <= i
    IN  obj.items[last_i].val

\* ------------------------------------------------------------------------
\* vector_store.py: FaissStore.search
\* ------------------------------------------------------------------------
\* the number of components of v equal to x
Count(v, x) == Cardinality({i \in DOMAIN v : v[i] = x})

\* the unit vectors used as embeddings, components in tenths: one component
\* 1.0, or one 0.6 and one 0.8, the others 0
Vecs == {v \in [1..Dim -> {0, 6, 8, 10}] :
           \/ (Count(v, 10) = 1 /\ Count(v, 0) = Dim - 1)
           \/ (Count(v, 6) = 1 /\ Count(v, 8) = 1 /\ Count(v, 0) = Dim - 2)}

\* the inner product of IndexFlatIP, in hundredths
RECURSIVE DotFrom(_, _, _)
DotFrom(u, v, i) == IF i > Len(u) THEN 0 ELSE u[i] * v[i] + DotFrom(u, v, i + 1)
Dot(u, v) == DotFrom(u, v, 1)

\* how the index orders entries of equal similarity: by ascending offset in
\* builds whose result heap breaks ties on the id, otherwise unspecified
\* (descending offset stands for the other orders)
TieOrders == {"asc", "desc"}

\* offset i ranks before offset j for the query q
RanksBefore(ix, q, ties, i, j) ==
    \/ Dot(ix[i], q) > Dot(ix[j], q)
    \/ /\ Dot(ix[i], q) = Dot(ix[j], q)
       /\ IF ties = "asc" THEN i <= j ELSE i >= j

\* index.search: the offsets of the k best entries among the set left, best first
RECURSIVE BestOffsets(_, _, _, _, _)
BestOffsets(ix, q, ties, left, k) ==
    IF k <= 0 \/ left = {} THEN <<>>
    ELSE LET b == CHOOSE i \in left : \A j \in left : RanksBefore(ix, q, ties, i, j)
         IN  <<b>> \o BestOffsets(ix, q, ties, left \ {b}, k - 1)

\* FaissStore.search(query_embedding, top_k): the (chunk, score) pairs, or
\* the IndexError of self.chunks[i] when the index holds more than the list
FaissStore_search(ix, cs, q, top_k, ties) ==
    LET offs == BestOffsets(ix, q, ties, DOMAIN ix, top_k)
    IN  IF \E n \in DOMAIN offs : offs[n] > Len(cs)
        THEN [raised |-> TRUE, results |-> <<>>]
        ELSE [raised |-> FALSE,
              results |-> [n \in DOMAIN offs |->
                              [chunk |-> cs[offs[n]], score |-> Dot(ix[offs[n]], q)]]]

\* ------------------------------------------------------------------------
\* rag_pipeline.py
\* ------------------------------------------------------------------------
\* clamp(v, lo, hi)
clamp(v, lo, hi) == IF v < lo THEN lo ELSE IF v > hi THEN hi ELSE v

\* round(a / b) to the nearest integer, ties to even, for a >= 0 and b > 0
RoundDiv(a, b) ==
    LET q == a \div b
        r == a % b
    IN  IF 2 * r < b THEN q
        ELSE IF 2 * r > b THEN q + 1
        ELSE IF q % 2 = 0 THEN q ELSE q + 1

\* A confidence is held in units of 1/60000: the mean of one, two or three
\* similarities (in hundredths) is exact, and confidences that differ in the
\* fifth decimal are told apart.
ConfUnit == 60000

RECURSIVE SumScores(_, _)
SumScores(r, n) == IF n = 0 THEN 0 ELSE r[n].score + SumScores(r, n - 1)

\* compute_confidence(retrieved): the mean of the top 3 scores, clamped to [0, 1]
compute_confidence(retrieved) ==
    IF retrieved = <<>> THEN 0
    ELSE LET n == IF Len(retrieved) < 3 THEN Len(retrieved) ELSE 3
         IN  clamp((SumScores(retrieved, n) * (ConfUnit \div 100)) \div n, 0, ConfUnit)

W_phi == <<"p", "h", "i">>
W_protected == <<"p", "r", "o", "t", "e", "c", "t", "e", "d", " ", "h", "e", "a", "l", "t", "h", " ", "i", "n", "f", "o", "r", "m", "a", "t", "i", "o", "n">>
W_hipaa == <<"h", "i", "p", "a", "a">>
W_log == <<"l", "o", "g">>
W_logs == <<"l", "o", "g", "s">>
W_store == <<"s", "t", "o", "r", "e">>

\* infer_risk_inputs(question, confidence)
infer_risk_inputs(question, confidence) ==
    LET q == Lower(question)
        mentionsPhi == Contains(q, W_phi) \/ Contains(q, W_protected)
        sensitivity == IF mentionsPhi \/ Contains(q, W_hipaa) THEN 5 ELSE 3
        sev1 == IF Contains(q, W_log) \/ Contains(q, W_logs) THEN 4 ELSE 3
        severity == IF Contains(q, W_store) /\ mentionsPhi THEN 5 ELSE sev1
    IN  [severity |-> severity, sensitivity |-> sensitivity, frequency |-> 3,
         confidence |-> confidence]

\* level(score) for the score num/den
level(num, den) ==
    IF num >= 75 * den THEN "Critical"
    ELSE IF num >= 50 * den THEN "High"
    ELSE IF num >= 25 * den THEN "Medium"
    ELSE "Low"

\* compute_risk_score with the confidence taken as the review priority
compute_risk_score_Uninverted(inputs) ==
    LET base == inputs.severity * inputs.sensitivity * inputs.frequency
        cr == clamp(base * 100, 0, 100 * 125)
        rp == clamp(clamp(inputs.confidence, 0, ConfUnit) * 100, 0, 100 * ConfUnit)
    IN  [compliance_risk |-> [score |-> RoundDiv(cr * 100, 125), level |-> level(cr, 125)],
         review_priority |-> [score |-> RoundDiv(rp * 100, ConfUnit), level |-> level(rp, ConfUnit)],
         inputs |-> [severity |-> inputs.severity, sensitivity |-> inputs.sensitivity,
                     frequency |-> inputs.frequency,
                     confidence |-> RoundDiv(inputs.confidence * 1000, ConfUnit)]]

\* compute_risk_score(inputs): the scores are reported in hundredths
\* (round(score, 2)), the confidence in thousandths (round(confidence, 3))
compute_risk_score(inputs) ==
    LET base == inputs.severity * inputs.sensitivity * inputs.frequency
        \* (base / 125.0) * 100.0, as a fraction over 125
        cr == clamp(base * 100, 0, 100 * 125)
        \* (1.0 - clamp(confidence, 0, 1)) * 100.0, as a fraction over ConfUnit
        rp == clamp((ConfUnit - clamp(inputs.confidence, 0, ConfUnit)) * 100, 0, 100 * ConfUnit)
    IN  [compliance_risk |-> [score |-> RoundDiv(cr * 100, 125), level |-> level(cr, 125)],
         review_priority |-> [score |-> RoundDiv(rp * 100, ConfUnit), level |-> level(rp, ConfUnit)],
         inputs |-> [severity |-> inputs.severity, sensitivity |-> inputs.sensitivity,
                     frequency |-> inputs.frequency,
                     confidence |-> RoundDiv(inputs.confidence * 1000, ConfUnit)]]

\* the loop with the raw chunk text as key (no strip)
RECURSIVE DedupeFrom_RawKey(_, _, _, _, _)
DedupeFrom_RawKey(raw, i, seen, retrieved, top_k) ==
    IF i > Len(raw) THEN retrieved
    ELSE LET key == raw[i].chunk
         IN  IF key \in seen THEN DedupeFrom_RawKey(raw, i + 1, seen, retrieved, top_k)
             ELSE IF Len(retrieved) + 1 >= top_k THEN Append(retrieved, raw[i])
             ELSE DedupeFrom_RawKey(raw, i + 1, seen \cup {key}, Append(retrieved, raw[i]), top_k)

Dedupe_RawKey(raw, top_k) == DedupeFrom_RawKey(raw, 1, {}, <<>>, top_k)

\* the de-duplication loop of answer_with_rag over raw[i..]
RECURSIVE DedupeFrom(_, _, _, _, _)
DedupeFrom(raw, i, seen, retrieved, top_k) ==
    IF i > Len(raw) THEN retrieved
    ELSE LET key == Strip(raw[i].chunk)
         IN  IF key \in seen THEN DedupeFrom(raw, i + 1, seen, retrieved, top_k)
             ELSE IF Len(retrieved) + 1 >= top_k THEN Append(retrieved, raw[i])
             ELSE DedupeFrom(raw, i + 1, seen \cup {key}, Append(retrieved, raw[i]), top_k)

Dedupe(raw, top_k) == DedupeFrom(raw, 1, {}, <<>>, top_k)

\* str(n) for n >= 0
DigitSeq == <<"0", "1", "2", "3", "4", "5", "6", "7", "8", "9">>
RECURSIVE Str(_)
Str(n) == IF n < 10 THEN <<DigitSeq[n + 1]>> ELSE Str(n \div 10) \o <<DigitSeq[(n % 10) + 1]>>

\* f"C{i}"
CitationId(i) == <<"C">> \o Str(i)

\* the parts of the prompt that depend on the retrieval: the context blocks
\* ("NO_CONTEXT_FOUND" when there is none) and the k of "Only use [C1]..[Ck]"
BuildPrompt(question, retrieved) ==
    [question |-> question,
     context_blocks |-> [i \in DOMAIN retrieved |->
                            [id |-> CitationId(i), score |-> retrieved[i].score,
                             chunk |-> retrieved[i].chunk]],
     no_context_found |-> (retrieved = <<>>),
     allowed_last |-> Len(retrieved)]

NoPrompt == [question |-> <<>>, context_blocks |-> <<>>, no_context_found |-> FALSE,
             allowed_last |-> 0]
NoRisk == [compliance_risk |-> [score |-> 0, level |-> "none"],
           review_priority |-> [score |-> 0, level |-> "none"],
           inputs |-> [severity |-> 0, sensitivity |-> 0, frequency |-> 0, confidence |-> 0]]

\* what a call of answer_with_rag that raised leaves: no result
RagRaised(error) ==
    [called |-> TRUE, raised |-> TRUE, error |-> error,
     question |-> <<>>, top_k |-> 0, confidence |-> 0, risk |-> NoRisk, retrieved |-> <<>>,
     prompt |-> NoPrompt,
     llm_raw |-> <<>>, llm_json_string |-> NoneStr, structured_output |-> <<>>,
     parse_error |-> <<>>]

\* the except branch keeping no description of the failure
ParseOutcome_Silent(parsed) ==
    IF parsed.raised
    THEN [structured |-> <<>>, extracted_json |-> NoneStr, parse_error |-> <<>>]
    ELSE [structured |-> <<parsed.obj>>, extracted_json |-> Some(parsed.json_str),
          parse_error |-> <<>>]

\* the try/except of answer_with_rag around parse_llm_json: str(e) becomes
\* parse_error
ParseOutcome(parsed) ==
    IF parsed.raised
    THEN [structured |-> <<>>, extracted_json |-> NoneStr, parse_error |-> <<parsed.error>>]
    ELSE [structured |-> <<parsed.obj>>, extracted_json |-> Some(parsed.json_str),
          parse_error |-> <<>>]

\* answer_with_rag(question, store, top_k) on the store (ix, cs).  q_emb is
\* the embedding of the question, ties the tie order of the index, llm the
\* outcome of ask_ollama: [raised, response].  With top_k = 0 the index is
\* searched for 0 neighbours, which asserts or gives nothing (zero_k_raises).
\* The result is the returned dict (with the prompt that was sent), or
\* RagRaised when the call raised.
answer_with_rag(question, ix, cs, top_k, q_emb, ties, zero_k_raises, llm) ==
    LET found == FaissStore_search(ix, cs, q_emb, top_k * 3, ties)
        retrieved == Dedupe(found.results, top_k)
        confidence == compute_confidence(retrieved)
        risk == compute_risk_score(infer_risk_inputs(question, confidence))
        prompt == BuildPrompt(question, retrieved)
        out == ParseOutcome(parse_llm_json(llm.response))
    IN  IF top_k * 3 <= 0 /\ zero_k_raises THEN RagRaised("AssertionError")
        ELSE IF found.raised THEN RagRaised("IndexError")
        ELSE IF llm.raised THEN RagRaised("ask_ollama")
        ELSE [called |-> TRUE, raised |-> FALSE, error |-> "",
              question |-> question, top_k |-> top_k,
              confidence |-> RoundDiv(confidence * 1000, ConfUnit),
              risk |-> risk,
              retrieved |-> [i \in DOMAIN retrieved |->
                               [id |-> CitationId(i), score |-> retrieved[i].score,
                                chunk |-> retrieved[i].chunk]],
              prompt |-> prompt,
              llm_raw |-> llm.response,
              llm_json_string |-> out.extracted_json,
              structured_output |-> out.structured,
              parse_error |-> out.parse_error]

\* ------------------------------------------------------------------------
\* Inputs of answer_with_rag
\* ------------------------------------------------------------------------
\* most entries of a store that is searched
MaxStored == 3
\* the largest top_k asked for
MaxTopK == 2

UnitVec(k) == [i \in 1..Dim |-> IF i = k THEN 10 ELSE 0]
\* 0.6 along the first axis, 0.8 along the second
MixedVec == [i \in 1..Dim |-> IF i = 1 THEN 6 ELSE IF i = 2 THEN 8 ELSE 0]

\* the (embedding, chunk) pairs a searched store is made of: two chunks
\* that differ only in white space, and two others
EntryKinds ==
    { [v |-> UnitVec(1), c |-> <<"a">>],
      [v |-> UnitVec(1), c |-> <<" ", "a">>],
      [v |-> MixedVec, c |-> <<"a", " ", "b">>],
      [v |-> UnitVec(2), c |-> <<"b">>] }

\* the stores ingestion builds: one chunk per vector
StoresOf(entries) == [index |-> [i \in DOMAIN entries |-> entries[i].v],
                      chunks |-> [i \in DOMAIN entries |-> entries[i].c]]
RagStores == {StoresOf(es) : es \in SeqsUpTo(EntryKinds, MaxStored)}

Questions ==
    { <<"I", "s", " ", "l", "o", "g", "g", "i", "n", "g", " ", "P", "H", "I", " ", "a", "l", "l", "o", "w", "e", "d", "?">>,
      <<"M", "a", "y", " ", "w", "e", " ", "s", "t", "o", "r", "e", " ", "p", "h", "i", " ", "i", "n", " ", "l", "o", "g", "s", "?">>,
      <<"H", "I", "P", "A", "A", " ", "l", "o", "g">>,
      <<"W", "h", "o", " ", "s", "i", "g", "n", "s", "?">> }

\* the texts a model response is made of
K_compliance_status == <<"c", "o", "m", "p", "l", "i", "a", "n", "c", "e", "_", "s", "t", "a", "t", "u", "s">>
K_evidence == <<"e", "v", "i", "d", "e", "n", "c", "e">>
K_quote == <<"q", "u", "o", "t", "e">>
K_citation == <<"c", "i", "t", "a", "t", "i", "o", "n">>
StatusTexts == { <<"C", "o", "m", "p", "l", "i", "a", "n", "t">>, <<"N", "o", "n", "-", "c", "o", "m", "p", "l", "i", "a", "n", "t">>, <<"U", "n", "k", "n", "o", "w", "n">>, <<"M", "a", "y", "b", "e">> }
QuoteTexts == { <<"a">>, <<"z", "z">> }
CitationTexts == { <<"C", "1">>, <<"C", "2">>, <<"C", "9">> }

Quoted(s) == <<"\"">> \o s \o <<"\"">>
Member(k, v) == Quoted(k) \o <<":", " ">> \o v

\* {"compliance_status": "..."} and
\* {"compliance_status": "...", "evidence": [{"quote": "...", "citation": "..."}]}
AnswerBodies ==
    { <<"{">> \o Member(K_compliance_status, Quoted(st)) \o <<"}">> : st \in StatusTexts }
    \cup
    { <<"{">> \o Member(K_compliance_status, Quoted(st)) \o <<",", " ">>
        \o Member(K_evidence,
                  <<"[", "{">> \o Member(K_quote, Quoted(q)) \o <<",", " ">>
                    \o Member(K_citation, Quoted(c)) \o <<"}", "]">>)
        \o <<"}">> : st \in StatusTexts, q \in QuoteTexts, c \in CitationTexts }

\* responses that hold no object, an undecodable one, or something else
OddBodies ==
    { <<>>,
      <<"{", "}">>,
      <<"{">>,
      <<"n", "o", " ", "j", "s", "o", "n", " ", "h", "e", "r", "e">>,
      <<"[", "1", "]">>,
      <<"\"", "x", "\"">>,
      <<"n", "u", "l", "l">>,
      <<"[", "{", "}", "]">>,
      <<"{", "\"", "a", "\"", " ", "1", "}">>,
      <<"{", "\"", "a", "\"", ":", " ", "1", ",", "}">>,
      <<"}", " ", "{">> }

Prefixes == { <<>>, Fence \o <<"j", "s", "o", "n", "\n">>, <<"S", "u", "r", "e", ":", " ">> }
Suffixes == { <<>>, <<"\n">> \o Fence, <<" ", "o", "k">>, <<" ", "{", "}">> }

Responses == {p \o b \o x : p \in Prefixes, b \in AnswerBodies \cup OddBodies, x \in Suffixes}

\* ask_ollama(prompt): the response text, or an exception (transport error,
\* HTTP error status, timeout)
LlmReturns(r) == [raised |-> FALSE, response |-> r]
LlmOutcomes == {LlmRaises} \cup {LlmReturns(r) : r \in Responses}

\* ------------------------------------------------------------------------
\* answer_with_rag on its own: one call
\* ------------------------------------------------------------------------
AnswerWithRag ==
    /\ ~rag.called
    /\ rag' = answer_with_rag(rag_in.question, index, chunks, rag_in.top_k, rag_in.q_emb,
                              rag_in.ties, rag_in.zero_k_raises, rag_in.llm)
    /\ UNCHANGED <<rag_in, phiVars, storeVars, evalVars, fnVars>>


\* the store as left by start-up with the files of an earlier ingestion
StoreHolds(st) ==
    /\ index = st.index
    /\ chunks = st.chunks
    /\ index_file = Complete(st.index)
    /\ meta_file = Complete(st.chunks)
    /\ pc = "idle"
    /\ last = NoCall
    /\ last_saved = [valid |-> TRUE, index |-> st.index, chunks |-> st.chunks]

\* retrieval: every store, top_k and query, few responses
InitRetrieve ==
    /\ \E st \in RagStores : StoreHolds(st)
    /\ rag_in \in [question : { <<"H", "I", "P", "A", "A", " ", "l", "o", "g">> },
                   top_k : 0..MaxTopK,
                   q_emb : {UnitVec(1), MixedVec},
                   ties : TieOrders,
                   zero_k_raises : BOOLEAN,
                   llm : {LlmRaises, LlmReturns( <<"{", "}">> )}]
    /\ rag = NoResult
    /\ text = NoneStr
    /\ phi = NoResult
    /\ EvalIdle
    /\ FnIdle

NextRetrieve == AnswerWithRag

SpecRetrieve == InitRetrieve /\ [][NextRetrieve]_vars

\* generation and parsing: every response, few stores
GenStores ==
    { StoresOf(<<>>),
      StoresOf(<< [v |-> MixedVec, c |-> <<"a", " ", "b">>], [v |-> UnitVec(2), c |-> <<"b">>] >>) }

InitGenerate ==
    /\ \E st \in GenStores : StoreHolds(st)
    /\ rag_in \in [question : Questions,
                   top_k : 1..MaxTopK,
                   q_emb : {UnitVec(1)},
                   ties : {"asc"},
                   zero_k_raises : {FALSE},
                   llm : LlmOutcomes]
    /\ rag = NoResult
    /\ text = NoneStr
    /\ phi = NoResult
    /\ EvalIdle
    /\ FnIdle

NextGenerate == AnswerWithRag

SpecGenerate == InitGenerate /\ [][NextGenerate]_vars

\* ------------------------------------------------------------------------
\* anomaly_model.py
\* ------------------------------------------------------------------------
\* the hour featurize falls back to
DefaultHour == 12

\* int(s) for a text of at most two characters: white space around an
\* optionally signed run of digits; [ok, val]
RECURSIVE DigitsValue(_)
DigitsValue(d) ==
    IF d = <<>> THEN 0
    ELSE 10 * DigitsValue(SubSeq(d, 1, Len(d) - 1))
         + (CHOOSE n \in 0..9 : DigitSeq[n + 1] = d[Len(d)])

ParseInt(s) ==
    LET t == Strip(s)
        signed == t # <<>> /\ t[1] \in {"+", "-"}
        d == IF signed THEN Tail(t) ELSE t
        ok == d # <<>> /\ \A i \in DOMAIN d : IsDigit(d[i])
    IN  [ok |-> ok,
         val |-> IF ~ok THEN 0
                 ELSE IF signed /\ t[1] = "-" THEN 0 - DigitsValue(d) ELSE DigitsValue(d)]

\* ts[11:13]
HourSlice(ts) == SubSeq(ts, 12, IF Len(ts) < 13 THEN Len(ts) ELSE 13)

\* featurize(event, phi)
featurize(event, phi_result) ==
    LET parsed == IF event.timestamp = NoneStr THEN [ok |-> FALSE, val |-> 0]
                  ELSE ParseInt(HourSlice(event.timestamp[1]))
        msg == OrEmpty(event.message) \o <<" ">> \o OrEmpty(event.action)
    IN  [hour |-> IF parsed.ok THEN parsed.val ELSE DefaultHour,
         msg_len |-> Len(msg),
         has_phi |-> IF phi_result.has_phi THEN 1 ELSE 0,
         sensitivity |-> phi_result.sensitivity]

\* score_event without the clamp
score_event_Unclamped(normality, pred) ==
    [is_anomaly |-> (pred = -1),
     normality |-> <<normality>>,
     anomaly_score |-> <<100 * (50 - normality)>>]

\* score_event(model, vec), given what the model computes for vec: normality
\* (decision_function, in hundredths) and pred (predict).  anomaly_score is
\* in hundredths (round(score, 2)).
score_event(normality, pred) ==
    [is_anomaly |-> (pred = -1),
     normality |-> <<normality>>,
     anomaly_score |-> <<100 * clamp(50 - normality, 0, 100)>>]

\* what an isolation forest computes: predict is -1 exactly where
\* decision_function is negative
Normalities == {-70, 0, 60}
ModelOutputs == {[normality |-> n, pred |-> IF n < 0 THEN -1 ELSE 1] : n \in Normalities}

\* load_model(): None when there is no file, the model when the file is
\* complete; joblib.load of a file still being written raises
load_model(file) ==
    IF file.state = "absent" THEN "none"
    ELSE IF file.state = "complete" THEN "model"
    ELSE "partial"

\* ------------------------------------------------------------------------
\* audit_report.py, report_persist.py
\* ------------------------------------------------------------------------
\* bool(v) of a decoded value
Truthy(v) ==
    IF v.k = "str" THEN v.s # <<>>
    ELSE IF v.k = "num" THEN \E i \in DOMAIN v.s : v.s[i] # "0"
    ELSE IF v.k = "lit" THEN v.s = <<"t", "r", "u", "e">>
    ELSE v.items # <<>>

JsonStr(s) == [k |-> "str", s |-> s, items |-> <<>>]

\* build_audit_report(query_result); report_id stands for the uuid4
build_audit_report(query_result, report_id) ==
    LET has == /\ query_result.structured_output # <<>>
               /\ HasKey(query_result.structured_output[1], K_compliance_status)
               /\ Truthy(Field(query_result.structured_output[1], K_compliance_status))
    IN  [report_id |-> report_id,
         question |-> query_result.question,
         compliance_status |-> IF has
                               THEN Field(query_result.structured_output[1], K_compliance_status)
                               ELSE JsonStr( <<"U", "n", "k", "n", "o", "w", "n">> ),
         confidence |-> query_result.confidence,
         risk |-> query_result.risk,
         evidence_chunks |-> [i \in DOMAIN query_result.retrieved |->
                                 [id |-> query_result.retrieved[i].id,
                                  score |-> query_result.retrieved[i].score]],
         parse_error |-> query_result.parse_error,
         review_status |-> "Needs Review"]

\* ------------------------------------------------------------------------
\* grc_routes.py: evaluate_event; log_routes.py: retrain
\* ------------------------------------------------------------------------
\* the top_k evaluate_event asks for
EvalTopK == 5
\* the fewest rows retrain trains on
MinTrainRows == 30
\* most evaluate_event calls, most models dumped
MaxEvals == 2
MaxTrainings == 2

\* str(x) of an optional string inside an f-string
StrOf(t) == IF t = NoneStr THEN <<"N", "o", "n", "e">> ELSE t[1]

\* the question evaluate_event builds
Question(event) ==
    <<"\n", "I", "s", " ", "t", "h", "e", " ", "f", "o", "l", "l", "o", "w", "i", "n", "g", " ", "a", "c", "t", "i", "v", "i", "t", "y", " ", "c", "o", "m", "p", "l", "i", "a", "n", "t", " ", "w", "i", "t", "h", " ", "H", "I", "P", "A", "A", "?", "\n", "A", "c", "t", "i", "o", "n", ":", " ">> \o StrOf(event.action)
    \o <<"\n", "M", "e", "s", "s", "a", "g", "e", ":", " ">> \o StrOf(event.message)
    \o <<"\n", "T", "i", "m", "e", ":", " ">> \o StrOf(event.timestamp) \o <<"\n">>

Event(message, action, timestamp) ==
    [message |-> message, action |-> action, timestamp |-> timestamp]

Events ==
    { Event(NoneStr, NoneStr, NoneStr),
      Event(Some( <<"o", "k">> ), Some( <<"v", "i", "e", "w">> ), Some( <<"2", "0", "2", "4", "-", "0", "1", "-", "0", "1", "T", "0", "3", ":", "0", "4", ":", "0", "5">> )),
      Event(Some( <<"1", "2", "3", "-", "4", "5", "-", "6", "7", "8", "9">> ), NoneStr, Some(<<>>)),
      Event(Some( <<"p", "a", "t", "i", "e", "n", "t">> ), Some( <<"v", "i", "e", "w">> ), Some( <<"2", "0", "2", "4", "-", "0", "1", "-", "0", "1", "T", "x", "x", ":", "0", "0", ":", "0", "0">> )) }

\* what the inference service does during an evaluation
EvalLlmOutcomes ==
    { LlmRaises,
      LlmReturns( <<"{", "}">> ),
      LlmReturns(<<"{">> \o Member(K_compliance_status, Quoted( <<"N", "o", "n", "-", "c", "o", "m", "p", "l", "i", "a", "n", "t">> )) \o <<"}">>) }

NoAnomaly == [is_anomaly |-> FALSE, normality |-> <<>>, anomaly_score |-> <<>>]

\* evaluate_event(event), as far as it gets, on the model file and the store
\* (ix, cs) as they are.  out is what the model computes for the event's
\* features, q_emb the embedding of the question, llm what the inference
\* service does, db_ok whether the commit of the report succeeds, report_id
\* the uuid4 of the report.  The result records the call: what load_model
\* saw, the response (escalated, phi, anomaly, report) or the exception
\* raised, and how often each counter of STATS was incremented.
\*
\* Step 4: the pipeline has run (or raised); report, save, respond
Reported(triaged, rag_result, db_ok, report_id) ==
    IF rag_result.raised
    THEN [triaged EXCEPT !.raised = TRUE, !.error = "answer_with_rag", !.rag = rag_result]
    ELSE IF ~db_ok
    THEN [triaged EXCEPT !.raised = TRUE, !.error = "save_report_to_db", !.rag = rag_result,
                         !.report = <<build_audit_report(rag_result, report_id)>>,
                         !.handed = TRUE]
    ELSE [triaged EXCEPT !.escalated = TRUE, !.rag = rag_result,
                         !.report = <<build_audit_report(rag_result, report_id)>>,
                         !.handed = TRUE, !.saved = TRUE]

\* Step 3: the decision
Decided(triaged, ix, cs, q_emb, llm, db_ok, report_id) ==
    IF ~(triaged.phi.has_phi \/ triaged.anomaly.is_anomaly) THEN triaged
    ELSE Reported([triaged EXCEPT !.counted.escalations = 1],
                  answer_with_rag(Question(triaged.event), ix, cs, EvalTopK, q_emb, "asc",
                                  FALSE, llm),
                  db_ok, report_id)

\* Step 2: load_model and the scoring
Scored(file, event, out, phi_result, ix, cs, q_emb, llm, db_ok, report_id) ==
    LET load == load_model(file)
        anomaly == IF load = "model" THEN score_event(out.normality, out.pred) ELSE NoAnomaly
        triaged == [called |-> TRUE, event |-> event, phi |-> phi_result, load |-> load,
                    feats |-> IF load = "model" THEN <<featurize(event, phi_result)>> ELSE <<>>,
                    anomaly |-> anomaly, raised |-> FALSE, error |-> "",
                    escalated |-> FALSE, rag |-> NoResult, report |-> <<>>,
                    handed |-> FALSE, saved |-> FALSE,
                    counted |-> [events_seen |-> 1,
                                 phi_events |-> IF phi_result.has_phi THEN 1 ELSE 0,
                                 anomalies |-> IF anomaly.is_anomaly THEN 1 ELSE 0,
                                 escalations |-> 0]]
    IN  IF load = "partial"
        THEN [triaged EXCEPT !.raised = TRUE, !.error = "load_model"]
        ELSE Decided(triaged, ix, cs, q_emb, llm, db_ok, report_id)

\* Step 1: the PHI detection
evaluate_event(file, ix, cs, event, out, q_emb, llm, db_ok, report_id) ==
    Scored(file, event, out, detect_phi(event.message), ix, cs, q_emb, llm, db_ok, report_id)

\* the inputs of an evaluation: the model file, the store, the event and
\* what the collaborators do.  No two entries of these stores are equally
\* similar to the query, so the tie order of the index does not show.
ModelFiles == {Absent, Partial} \cup {Complete(v) : v \in 1..MaxTrainings}
EvalInputs ==
    [file : ModelFiles, store : GenStores, event : Events, out : ModelOutputs,
     q_emb : {UnitVec(1)}, llm : EvalLlmOutcomes, db_ok : BOOLEAN, report_id : 1..MaxEvals]

\* evaluate_event on each of these inputs, held as a table (@@ makes the
\* function an explicit one, computed once)
Evaluations ==
    [a \in EvalInputs |->
        evaluate_event(a.file, a.store.index, a.store.chunks, a.event, a.out, a.q_emb, a.llm,
                       a.db_ok, a.report_id)] @@ <<>>

\* what can differ between two evaluations: the model computes something
\* only when it was loaded, the commit is reached only when the inference
\* service answered
OutputsOf(file) ==
    IF load_model(file) = "model" THEN ModelOutputs ELSE {CHOOSE o \in ModelOutputs : TRUE}
CommitsAfter(llm) == IF llm.raised THEN {TRUE} ELSE BOOLEAN

\* POST /evaluate-event
EvaluateEvent ==
    /\ STATS.events_seen < MaxEvals
    /\ handed < MaxEvals
    /\ \E event \in Events, out \in OutputsOf(model_file), q_emb \in {UnitVec(1)},
          llm \in EvalLlmOutcomes :
       \E db_ok \in CommitsAfter(llm) :
          ev' = Evaluations[[file |-> model_file,
                             store |-> [index |-> index, chunks |-> chunks],
                             event |-> event, out |-> out, q_emb |-> q_emb, llm |-> llm,
                             db_ok |-> db_ok, report_id |-> handed + 1]]
    /\ STATS' = [k \in DOMAIN STATS |-> STATS[k] + ev'.counted[k]]
    /\ handed' = IF ev'.handed THEN handed + 1 ELSE handed
    /\ UNCHANGED <<model_file, train, trainings, phiVars, storeVars, ragVars, fnVars>>

\* the numbers of rows retrain finds in the event log
RowCounts == {0, MinTrainRows - 1, MinTrainRows}

\* retrain goes on to train: not (len(rows) < 30)
EnoughRows_OffByOne(n) == n >= MinTrainRows - 1
EnoughRows(n) == ~(n < MinTrainRows)

\* POST /retrain with fewer than MinTrainRows rows: refused
RetrainRefused ==
    /\ train.pc = "idle"
    /\ \E n \in RowCounts :
          /\ ~EnoughRows(n)
          /\ train' = [pc |-> "idle", rows |-> n, result |-> "refused"]
    /\ UNCHANGED <<STATS, model_file, trainings, ev, handed, phiVars, storeVars, ragVars, fnVars>>

\* POST /retrain with enough rows, up to joblib.dump having opened
\* MODEL_PATH for writing
TrainOpen ==
    /\ train.pc = "idle"
    /\ trainings < MaxTrainings
    /\ \E n \in RowCounts :
          /\ EnoughRows(n)
          /\ train' = [pc |-> "writing", rows |-> n, result |-> "none"]
    /\ model_file' = Partial
    /\ trainings' = trainings + 1
    /\ UNCHANGED <<STATS, ev, handed, phiVars, storeVars, ragVars, fnVars>>

\* joblib.dump has written the model; retrain returns
TrainDump ==
    /\ train.pc = "writing"
    /\ model_file' = Complete(trainings)
    /\ train' = [train EXCEPT !.pc = "idle", !.result = "trained"]
    /\ UNCHANGED <<STATS, trainings, ev, handed, phiVars, storeVars, ragVars, fnVars>>

\* the process dies while joblib.dump is writing, and is started again:
\* the file stays as it was left, STATS starts from zero
TrainCrash ==
    /\ train.pc = "writing"
    /\ train' = NoTrain
    /\ STATS' = NoStats
    /\ ev' = NoResult
    /\ UNCHANGED <<model_file, trainings, handed, phiVars, storeVars, ragVars, fnVars>>

Init ==
    /\ \E st \in GenStores : StoreHolds(st)
    /\ RagIdle
    /\ text = NoneStr
    /\ phi = NoResult
    /\ EvalIdle
    /\ FnIdle

Next ==
    \/ EvaluateEvent
    \/ RetrainRefused
    \/ TrainOpen
    \/ TrainDump
    \/ TrainCrash

Spec == Init /\ [][Next]_vars

\* ------------------------------------------------------------------------
\* FaissStore.search on its own: one call on a store left by ingestion
\* ------------------------------------------------------------------------
\* the largest top_k searched for
MaxSearchK == 4

InitSearch ==
    /\ \E st \in RagStores : StoreHolds(st)
    /\ args \in [fn : {"search"}, q_emb : {UnitVec(1), MixedVec}, top_k : 0..MaxSearchK,
                 ties : TieOrders, zero_k_raises : BOOLEAN]
    /\ ret = NoResult
    /\ RagIdle
    /\ text = NoneStr
    /\ phi = NoResult
    /\ EvalIdle

\* store.search(query_embedding, top_k); a search for 0 neighbours asserts
\* or gives nothing (zero_k_raises)
Search ==
    /\ ~ret.called
    /\ ret' = IF args.top_k <= 0 /\ args.zero_k_raises
              THEN [called |-> TRUE, raised |-> TRUE, results |-> <<>>]
              ELSE LET found == FaissStore_search(index, chunks, args.q_emb, args.top_k,
                                                  args.ties)
                   IN  [called |-> TRUE, raised |-> found.raised, results |-> found.results]
    /\ UNCHANGED <<args, phiVars, storeVars, ragVars, evalVars>>

SpecSearch == InitSearch /\ [][Search]_vars

\* ------------------------------------------------------------------------
\* The risk functions on their own: one call of compute_risk_score, or of
\* infer_risk_inputs followed by compute_risk_score as in answer_with_rag
\* ------------------------------------------------------------------------
\* confidences in [0, 1], in units of 1/ConfUnit: 0, 0.25 and 0.5 and their
\* neighbours, 0.75, 0.9, 1
Confidences ==
    {0, 1, (ConfUnit \div 4) - 1, ConfUnit \div 4, (ConfUnit \div 4) + 1,
     (ConfUnit \div 2) - 1, ConfUnit \div 2, (ConfUnit \div 2) + 1,
     3 * (ConfUnit \div 4), 9 * (ConfUnit \div 10), ConfUnit - 1, ConfUnit}

RiskQuestions ==
    Questions \cup
    { <<"M", "a", "y", " ", "w", "e", " ", "s", "t", "o", "r", "e", " ", "P", "H", "I", "?">>,
      <<"D", "o", " ", "w", "e", " ", "s", "t", "o", "r", "e", " ", "H", "I", "P", "A", "A", " ", "r", "e", "c", "o", "r", "d", "s", "?">>,
      <<"I", "s", " ", "p", "r", "o", "t", "e", "c", "t", "e", "d", " ", "h", "e", "a", "l", "t", "h", " ", "i", "n", "f", "o", "r", "m", "a", "t", "i", "o", "n", " ", "s", "t", "o", "r", "e", "d", " ", "i", "n", " ", "t", "h", "e", " ", "c", "a", "t", "a", "l", "o", "g", "?">> }

InitRisk ==
    /\ args \in [fn : {"compute_risk_score"}, severity : 1..5, sensitivity : 1..5,
                 frequency : 1..5, confidence : Confidences]
              \cup [fn : {"infer_risk_inputs"}, question : RiskQuestions,
                    confidence : Confidences]
    /\ ret = NoResult
    /\ StoreIdle
    /\ RagIdle
    /\ text = NoneStr
    /\ phi = NoResult
    /\ EvalIdle

\* compute_risk_score(RiskInputs(...))
ComputeRiskScore ==
    /\ args.fn = "compute_risk_score"
    /\ ~ret.called
    /\ ret' = [called |-> TRUE,
               risk |-> compute_risk_score([severity |-> args.severity,
                                            sensitivity |-> args.sensitivity,
                                            frequency |-> args.frequency,
                                            confidence |-> args.confidence])]
    /\ UNCHANGED <<args, phiVars, storeVars, ragVars, evalVars>>

\* risk_inputs = infer_risk_inputs(question, confidence);
\* risk = compute_risk_score(risk_inputs)
InferRiskInputs ==
    /\ args.fn = "infer_risk_inputs"
    /\ ~ret.called
    /\ LET risk_inputs == infer_risk_inputs(args.question, args.confidence)
       IN  ret' = [called |-> TRUE, risk_inputs |-> risk_inputs,
                   risk |-> compute_risk_score(risk_inputs)]
    /\ UNCHANGED <<args, phiVars, storeVars, ragVars, evalVars>>

NextRisk ==
    \/ ComputeRiskScore
    \/ InferRiskInputs

SpecRisk == InitRisk /\ [][NextRisk]_vars

\* ------------------------------------------------------------------------
\* score_event on its own: one call, on what the model computes
\* ------------------------------------------------------------------------
\* the normalities scored (hundredths): every one from -1.5 to 1.5, and two
\* far out
MaxNormality == 150
FarNormality == 1000000
ScoredNormalities == (0 - MaxNormality)..MaxNormality \cup {0 - FarNormality, FarNormality}

InitScore ==
    /\ args \in [fn : {"score_event"}, normality : ScoredNormalities, pred : {-1, 1}]
    /\ ret = NoResult
    /\ StoreIdle
    /\ RagIdle
    /\ text = NoneStr
    /\ phi = NoResult
    /\ EvalIdle

ScoreEvent ==
    /\ ~ret.called
    /\ ret' = [called |-> TRUE, anomaly |-> score_event(args.normality, args.pred)]
    /\ UNCHANGED <<args, phiVars, storeVars, ragVars, evalVars>>

SpecScore == InitScore /\ [][ScoreEvent]_vars

\* ------------------------------------------------------------------------
\* featurize on its own: one call on an event and its detect_phi result
\* ------------------------------------------------------------------------
\* the characters tried at offsets 11 and 12 of a timestamp
HourChars == {"0", "1", "2", "9", "x", "-", " "}
DatePrefix == <<"2", "0", "2", "4", "-", "0", "1", "-", "0", "1", "T">>
Timestamps ==
    {NoneStr, Some(<<>>), Some(<<"2", "0", "2", "4", "-", "0", "1", "-", "0", "1">>), Some(<<"2", "0", "2", "4", "-", "0", "1", "-", "0", "1", "T", "7">>)}
    \cup {Some(DatePrefix \o <<a, b>> \o <<":", "0", "4", ":", "0", "5">>) : a \in HourChars, b \in HourChars}

FeaturizedEvents ==
    {Event(msg, Some(<<"v", "i", "e", "w">>), ts) :
        msg \in {NoneStr, Some(<<"o", "k">>), Some(<<"1", "2", "3", "-", "4", "5", "-", "6", "7", "8", "9">>)}, ts \in Timestamps}

InitFeaturize ==
    /\ args \in [fn : {"featurize"}, event : FeaturizedEvents]
    /\ ret = NoResult
    /\ StoreIdle
    /\ RagIdle
    /\ text = NoneStr
    /\ phi = NoResult
    /\ EvalIdle

\* phi = detect_phi(message); feats = featurize(event, phi)
Featurize ==
    /\ ~ret.called
    /\ ret' = [called |-> TRUE, feats |-> featurize(args.event, detect_phi(args.event.message))]
    /\ UNCHANGED <<args, phiVars, storeVars, ragVars, evalVars>>

SpecFeaturize == InitFeaturize /\ [][Featurize]_vars

\* ------------------------------------------------------------------------
\* The store after its add calls: saved, loaded, restarted
\* ------------------------------------------------------------------------
\* ingestion has added to a new store (any rows, any chunks: add compares
\* neither count with the other) and is about to save for the first time
InitRoundTrip ==
    /\ index \in SeqsUpTo(OneHot(Dim), MaxEntries)
    /\ chunks \in SeqsUpTo(StoreChunkTexts, MaxEntries)
    /\ index_file = Absent
    /\ meta_file = Absent
    /\ pc = "added"
    /\ last = [NoCall EXCEPT !.op = "add", !.ndim = 2, !.width = Dim,
                             !.n = Len(index), !.m = Len(chunks)]
    /\ last_saved = [valid |-> FALSE, index |-> <<>>, chunks |-> <<>>]
    /\ RagIdle
    /\ EvalIdle
    /\ FnIdle
    /\ text = NoneStr
    /\ phi = NoResult

NextRoundTrip ==
    \/ SaveOpenIndex
    \/ SaveWriteIndex
    \/ SaveOpenMeta
    \/ SaveDumpMeta
    \/ Load
    \/ Crash
    \/ Startup

SpecRoundTrip == InitRoundTrip /\ [][NextRoundTrip]_vars

\* ------------------------------------------------------------------------
\* The PHI detector on its own: one call of detect_phi on one message
\* ------------------------------------------------------------------------
InitPhi ==
    /\ text \in {NoneStr} \cup {Some(m) : m \in Messages}
    /\ phi = NoResult
    /\ StoreIdle
    /\ RagIdle
    /\ EvalIdle
    /\ FnIdle

DetectPhi ==
    /\ ~phi.called
    /\ phi' = detect_phi(text)
    /\ UNCHANGED <<text, storeVars, ragVars, evalVars, fnVars>>

NextPhi == DetectPhi

SpecPhi == InitPhi /\ [][NextPhi]_vars

\* ------------------------------------------------------------------------
\* C2
\* ------------------------------------------------------------------------
\* the pattern kind matches somewhere in s
Matches(kind, s) == \E p \in 0..Len(s) : MatchLen(kind, s, p) > 0
KeywordIn(s) == \E i \in DOMAIN PHI_KEYWORDS : Contains(Lower(s), PHI_KEYWORDS[i])

\* C2: detect_phi assigns sensitivity by the ordered policy (5 when an SSN
\* or MRN pattern matches somewhere in the text, else 4 when an email,
\* phone or DOB pattern matches, else 3 when a keyword occurs, else 1);
\* has_phi is true exactly when a pattern matches or a keyword occurs; a
\* text with an SSN pattern gets 5 and has_phi; the sensitivity is within
\* 1..5, and an empty or missing text gets 1.
C2_SensitivityPolicy ==
    phi.called =>
        LET s == OrEmpty(text)
            idLike == Matches("ssn", s) \/ Matches("mrn", s)
            structural == Matches("email", s) \/ Matches("phone", s) \/ Matches("dob", s)
        IN  /\ phi.sensitivity =
                 IF idLike THEN 5
                 ELSE IF structural THEN 4
                 ELSE IF KeywordIn(s) THEN 3 ELSE 1
            /\ phi.has_phi = (idLike \/ structural \/ KeywordIn(s))
            /\ \A k \in PatternKinds : (phi.matches[k] # <<>>) = Matches(k, s)
            /\ (phi.keyword_hits # <<>>) = KeywordIn(s)
            /\ Matches("ssn", s) => phi.sensitivity = 5 /\ phi.has_phi
            /\ phi.sensitivity \in 1..5
            /\ s = <<>> => phi.sensitivity = 1 /\ ~phi.has_phi

\* a text in which an SSN pattern and an email pattern both match has been
\* classified, and the SSN decided
C2_Witness ==
    /\ phi.called
    /\ phi.matches["ssn"] # <<>>
    /\ phi.matches["email"] # <<>>
    /\ phi.sensitivity = 5

\* ------------------------------------------------------------------------
\* C7, C8, C9
\* ------------------------------------------------------------------------
\* C7: add fails with a shape-mismatch error when the embedding width is
\* not the configured dimension or when the number of chunks is not the
\* number of rows, and a failed add changes neither the index nor the list.
C7_AddRejectsShapeMismatch ==
    last.op = "add" =>
        /\ (last.ndim # 2 \/ last.width # Dim \/ last.m # last.n) => last.raised
        /\ last.raised => Len(index) = last.pre_n /\ Len(chunks) = last.pre_m

\* C8: load fails when either file is missing and when the two files hold
\* different numbers of entries; it never leaves the store with an index
\* and a chunk list of different lengths.
C8_LoadRejectsUnpaired ==
    last.op = "load" =>
        /\ (index_file.state = "absent" \/ meta_file.state = "absent") => last.raised
        /\ (/\ index_file.state = "complete"
            /\ meta_file.state = "complete"
            /\ Len(index_file.data) # Len(meta_file.data)) => last.raised
        /\ Len(index) = Len(chunks)

\* C9: when the process dies after add has started and before the save that
\* follows it has completed, the next start loads exactly the index and the
\* chunk list written by the last completed save.
C9_CrashKeepsLastSave ==
    (/\ last.op = "startup"
     /\ last.at \in {"added", "index_open", "index_written", "meta_open"}
     /\ last_saved.valid)
        => /\ ~last.raised
           /\ index = last_saved.index
           /\ chunks = last_saved.chunks

\* ------------------------------------------------------------------------
\* answer_with_rag: generation, parsing, retrieval
\* ------------------------------------------------------------------------
RagReturned == rag.called /\ ~rag.raised

\* C3: when the text-inference call fails, answer_with_rag does not raise:
\* it returns a result with the question, the retrieved chunks, the
\* confidence and the risk computed before the generation step.
C3_GenerationFailureReturned ==
    (rag.called /\ rag_in.llm.raised) =>
        /\ ~rag.raised
        /\ rag.question = rag_in.question
        /\ rag.retrieved =
               answer_with_rag(rag_in.question, index, chunks, rag_in.top_k, rag_in.q_emb,
                               rag_in.ties, rag_in.zero_k_raises, LlmReturns(<<>>)).retrieved

\* C4: for every raw model response answer_with_rag returns normally with
\* llm_raw the raw text, and either structured_output is a decoded object
\* and parse_error is null, or structured_output and llm_json_string are
\* null and parse_error is a description.
C4_ParseFailureContained ==
    (rag.called /\ ~rag_in.llm.raised) =>
        /\ ~rag.raised
        /\ rag.llm_raw = rag_in.llm.response
        /\ \/ /\ rag.structured_output # <<>>
              /\ rag.structured_output[1].k = "obj"
              /\ rag.parse_error = <<>>
           \/ /\ rag.structured_output = <<>>
              /\ rag.llm_json_string = NoneStr
              /\ rag.parse_error # <<>>

\* a response whose {...} block does not decode came back as a parse error
C4_Witness ==
    /\ RagReturned
    /\ Contains(rag.llm_raw, <<"{">>)
    /\ rag.structured_output = <<>>
    /\ rag.parse_error = <<"Invalid JSON after extraction">>

AllowedStatus == { <<"C", "o", "m", "p", "l", "i", "a", "n", "t">>, <<"N", "o", "n", "-", "c", "o", "m", "p", "l", "i", "a", "n", "t">>, <<"U", "n", "k", "n", "o", "w", "n">> }

StatusAllowed(obj) ==
    /\ HasKey(obj, K_compliance_status)
    /\ Field(obj, K_compliance_status).k = "str"
    /\ Field(obj, K_compliance_status).s \in AllowedStatus

EvidenceItemGrounded(item, retrieved) ==
    /\ item.k = "obj"
    /\ HasKey(item, K_citation)
    /\ Field(item, K_citation).k = "str"
    /\ \E i \in DOMAIN retrieved : retrieved[i].id = Field(item, K_citation).s
    /\ HasKey(item, K_quote)
    /\ Field(item, K_quote).k = "str"
    /\ \E i \in DOMAIN retrieved : Contains(retrieved[i].chunk, Field(item, K_quote).s)

EvidenceGrounded(obj, retrieved) ==
    HasKey(obj, K_evidence) =>
        /\ Field(obj, K_evidence).k = "arr"
        /\ \A n \in DOMAIN Field(obj, K_evidence).items :
               EvidenceItemGrounded(Field(obj, K_evidence).items[n], retrieved)

\* C5: a non-null structured_output has compliance_status one of Compliant,
\* Non-compliant, Unknown; every evidence citation is a citation id of the
\* same result's retrieved list; every evidence quote is a verbatim
\* substring of a retrieved chunk.
C5_StructuredAnswerValid ==
    (RagReturned /\ rag.structured_output # <<>>) =>
        /\ StatusAllowed(rag.structured_output[1])
        /\ EvidenceGrounded(rag.structured_output[1], rag.retrieved)

\* the candidates with every later chunk of an already seen trimmed text
\* dropped
RECURSIVE KeepFirst(_, _)
KeepFirst(raw, i) ==
    IF i > Len(raw) THEN <<>>
    ELSE (IF \E j \in 1..(i - 1) : Strip(raw[j].chunk) = Strip(raw[i].chunk)
          THEN <<>> ELSE <<raw[i]>>) \o KeepFirst(raw, i + 1)

Take(s, n) == SubSeq(s, 1, IF n < Len(s) THEN n ELSE Len(s))

\* the candidate list the index search returned for this call
Candidates ==
    FaissStore_search(index, chunks, rag_in.q_emb, rag_in.top_k * 3, rag_in.ties).results

\* C6: the retrieved list has at most one entry per trimmed chunk text, at
\* most top_k entries, equals the de-duplicated candidate list truncated to
\* top_k (so keeps the candidates' order), has the citation ids C1..Ck in
\* order, and the k of the prompt's allowed-citation range is the number of
\* context blocks of the prompt.
C6_DedupeThenTruncate ==
    RagReturned =>
        LET want == Take(KeepFirst(Candidates, 1), rag_in.top_k)
        IN  /\ Len(rag.retrieved) <= rag_in.top_k
            /\ \A i, j \in DOMAIN rag.retrieved :
                   Strip(rag.retrieved[i].chunk) = Strip(rag.retrieved[j].chunk) => i = j
            /\ Len(rag.retrieved) = Len(want)
            /\ \A i \in DOMAIN rag.retrieved :
                   /\ rag.retrieved[i].chunk = want[i].chunk
                   /\ rag.retrieved[i].score = want[i].score
                   /\ rag.retrieved[i].id = CitationId(i)
            /\ rag.prompt.allowed_last = Len(rag.prompt.context_blocks)
            /\ Len(rag.prompt.context_blocks) = Len(rag.retrieved)
            /\ \A i \in DOMAIN rag.retrieved :
                   rag.prompt.context_blocks[i].id = rag.retrieved[i].id

\* a duplicate was dropped from between two kept candidates
C6_Witness ==
    /\ RagReturned
    /\ Len(Candidates) = 3
    /\ Len(KeepFirst(Candidates, 1)) = 2
    /\ Strip(Candidates[1].chunk) = Strip(Candidates[2].chunk)
    /\ Len(rag.retrieved) = 2
    /\ rag.retrieved[2].id = <<"C", "2">>
    /\ rag.retrieved[2].chunk = Candidates[3].chunk

\* ------------------------------------------------------------------------
\* evaluate_event and the model file
\* ------------------------------------------------------------------------
\* the decision of the last evaluation
ShouldEscalate == ev.phi.has_phi \/ ev.anomaly.is_anomaly

\* the gate itself: the pipeline is invoked exactly when the detector or the
\* scorer flags the event, and nothing is reported otherwise
EscalationGate ==
    (ev.called /\ ev.load # "partial") =>
        /\ ev.rag.called <=> ShouldEscalate
        /\ ~ShouldEscalate => (~ev.raised /\ ~ev.escalated /\ ev.report = <<>> /\ ~ev.handed)

\* C1: with the model trained or absent, evaluate_event invokes the
\* reasoning pipeline and returns escalated=true if and only if has_phi or
\* is_anomaly; otherwise it returns escalated=false without invoking the
\* pipeline or creating a report.  (A failing commit of the report by the
\* persistence collaborator is left aside.)
C1_EscalatesIffPhiOrAnomaly ==
    (ev.called /\ ev.load # "partial" /\ ev.error # "save_report_to_db") =>
        /\ EscalationGate
        /\ ShouldEscalate <=> (ev.rag.called /\ ~ev.raised /\ ev.escalated)

\* C10: a load_model running during a retrain, or after a crash during one,
\* sees the complete previous model, the complete new model or no model,
\* never a partially written file.
C10_ModelOverwriteAtomic ==
    ev.called => ev.load \in {"none", "model"}

\* ------------------------------------------------------------------------
\* C11
\* ------------------------------------------------------------------------
\* C11: a retrain that found fewer than 30 rows answers trained = false,
\* starts no training and leaves the model file as it was; a retrain that
\* found 30 rows or more is never refused, starts a training, and the
\* training ends with a new model written over the file
C11_RetrainNeedsEnoughRows ==
    /\ [](train.result = "refused" => train.rows < MinTrainRows)
    /\ [](train.result = "trained" \/ train.pc = "writing" => train.rows >= MinTrainRows)
    /\ [][ /\ (train'.result = "refused" /\ train' # train)
               => model_file' = model_file /\ trainings' = trainings /\ train'.pc = "idle"
           /\ (train.pc = "idle" /\ train'.pc = "writing")
               => trainings' = trainings + 1
           /\ (train.pc = "writing" /\ train'.result = "trained")
               => model_file' = Complete(trainings) /\ model_file' # model_file ]_vars

\* a retrain refused for 29 rows after two trainings: the second model is
\* still the file
C11_Witness ==
    /\ train.result = "refused"
    /\ train.rows = MinTrainRows - 1
    /\ model_file = Complete(MaxTrainings)

\* ------------------------------------------------------------------------
\* C12
\* ------------------------------------------------------------------------
\* what the absence of a model does on its own: the anomaly is reported as
\* unavailable, the pipeline is invoked exactly when has_phi, and the
\* anomalies counter is not incremented
NoModelScoring ==
    (ev.called /\ ev.load = "none") =>
        /\ ev.error # "load_model"
        /\ ev.anomaly = NoAnomaly
        /\ ev.feats = <<>>
        /\ ev.rag.called <=> ev.phi.has_phi
        /\ ev.counted.anomalies = 0

\* C12: with no model file, evaluate_event completes without error, reports
\* is_anomaly = false and anomaly_score = null, returns escalated = true
\* exactly when has_phi, and never increments the anomalies counter.  (A
\* failing commit of the report by the persistence collaborator is left
\* aside.)
C12_NoModelCompletes ==
    (ev.called /\ ev.load = "none" /\ ev.error # "save_report_to_db") =>
        /\ NoModelScoring
        /\ ~ev.raised
        /\ ev.escalated <=> ev.phi.has_phi

\* ------------------------------------------------------------------------
\* C13
\* ------------------------------------------------------------------------
\* the offsets that come before offset i in the claimed order: those of
\* greater similarity, and those of equal similarity inserted earlier
ClaimedBefore(i) ==
    {j \in DOMAIN index :
        \/ Dot(index[j], args.q_emb) > Dot(index[i], args.q_emb)
        \/ Dot(index[j], args.q_emb) = Dot(index[i], args.q_emb) /\ j < i}

\* the claimed result: the min(top_k, n) first offsets of that order
ClaimedResults ==
    LET n == IF args.top_k < Len(index) THEN args.top_k ELSE Len(index)
        off == [r \in 1..n |-> CHOOSE i \in DOMAIN index : Cardinality(ClaimedBefore(i)) = r - 1]
    IN  [r \in 1..n |-> [chunk |-> chunks[off[r]], score |-> Dot(index[off[r]], args.q_emb)]]

\* C13: search(q, top_k), top_k >= 1, on an index of n vectors returns,
\* without raising, min(top_k, n) pairs in descending similarity to q, pairs
\* of equal similarity in ascending insertion offset (so the empty list on
\* an empty index)
C13_SearchOrdered ==
    (ret.called /\ args.top_k >= 1) => (~ret.raised /\ ret.results = ClaimedResults)

\* ------------------------------------------------------------------------
\* C14
\* ------------------------------------------------------------------------
\* the stores (ix1, cs1) and (ix2, cs2) answer every search alike: the same
\* list, or the same error, for every query and every top_k
SameSearches(ix1, cs1, ix2, cs2) ==
    \A q \in Vecs, top_k \in 0..(MaxEntries + 1), ties \in TieOrders :
        FaissStore_search(ix1, cs1, q, top_k, ties) = FaissStore_search(ix2, cs2, q, top_k, ties)

\* the files loaded into a new FaissStore
LoadedAfresh == FaissStore_load(<<>>, <<>>, index_file, meta_file)

RiskCalled == ret.called /\ args.fn = "compute_risk_score"

\* review_priority.score of compute_risk_score for the given inputs
ReviewScore(severity, sensitivity, frequency, confidence) ==
    compute_risk_score([severity |-> severity, sensitivity |-> sensitivity,
                        frequency |-> frequency,
                        confidence |-> confidence]).review_priority.score

\* C15: for severity, sensitivity and frequency in 1..5 and a confidence in
\* [0, 1], both scores lie in [0, 100] (hundredths: 0..10000), and
\* review_priority.score does not depend on severity, sensitivity or
\* frequency and does not increase when the confidence does
C15_ScoresBoundedAndDecoupled ==
    RiskCalled =>
        /\ ret.risk.compliance_risk.score \in 0..10000
        /\ ret.risk.review_priority.score \in 0..10000
        /\ \A s \in 1..5, n \in 1..5, f \in 1..5 :
              ReviewScore(s, n, f, args.confidence) = ret.risk.review_priority.score
        /\ \A c \in Confidences :
              c >= args.confidence =>
                 ReviewScore(args.severity, args.sensitivity, args.frequency, c)
                    <= ret.risk.review_priority.score

\* the highest inherent risk at confidence 0.9: scores 100.0 and 10.0
C15_Witness ==
    /\ RiskCalled
    /\ args.severity = 5 /\ args.sensitivity = 5 /\ args.frequency = 5
    /\ args.confidence = 9 * (ConfUnit \div 10)
    /\ ret.risk.compliance_risk.score = 10000
    /\ ret.risk.review_priority.score = 1000

\* the level the thresholds give a reported score (in hundredths)
ThresholdLevel(score) ==
    IF score >= 7500 THEN "Critical"
    ELSE IF score >= 5000 THEN "High"
    ELSE IF score >= 2500 THEN "Medium"
    ELSE "Low"

\* C16: for both scores, the level paired with the reported score is
\* Critical for a score >= 75, High for 50 <= score < 75, Medium for
\* 25 <= score < 50 and Low below 25
C16_LevelFollowsReportedScore ==
    RiskCalled =>
        /\ ret.risk.compliance_risk.level = ThresholdLevel(ret.risk.compliance_risk.score)
        /\ ret.risk.review_priority.level = ThresholdLevel(ret.risk.review_priority.score)

\* the question mentions the word
Mentions(w) == Contains(Lower(args.question), w)
MentionsHealthData == Mentions(W_phi) \/ Mentions(W_protected)

\* C17: infer_risk_inputs gives sensitivity 5 if the question mentions phi,
\* protected health information or hipaa, else 3; severity 4 if it mentions
\* log, raised to 5 if it also mentions the storage of protected health
\* data, else 3; frequency 3; the confidence unchanged.  A question
\* mentioning HIPAA and log at confidence 0.9 gets compliance_risk 48.0
\* (Medium) and review_priority 10.0 (Low).
C17_InferredRiskInputs ==
    (ret.called /\ args.fn = "infer_risk_inputs") =>
        /\ ret.risk_inputs.sensitivity
              = IF MentionsHealthData \/ Mentions(W_hipaa) THEN 5 ELSE 3
        /\ ret.risk_inputs.severity
              = IF Mentions(W_log)
                THEN (IF Mentions(W_store) /\ MentionsHealthData THEN 5 ELSE 4)
                ELSE 3
        /\ ret.risk_inputs.frequency = 3
        /\ ret.risk_inputs.confidence = args.confidence
        /\ (args.question = <<"H", "I", "P", "A", "A", " ", "l", "o", "g">> /\ args.confidence = 9 * (ConfUnit \div 10)) =>
              /\ ret.risk.compliance_risk = [score |-> 4800, level |-> "Medium"]
              /\ ret.risk.review_priority = [score |-> 1000, level |-> "Low"]

\* ------------------------------------------------------------------------
\* C18
\* ------------------------------------------------------------------------
\* (0.5 - normality) * 100 held within [0, 100], in hundredths
ClampedScore(normality) ==
    IF normality >= 50 THEN 0
    ELSE IF normality <= -50 THEN 10000
    ELSE 100 * (50 - normality)

\* C18: anomaly_score is (0.5 - normality) * 100 held within [0, 100]: it
\* lies in 0..100 for every normality, no higher normality has a higher
\* score, and clamping it again changes nothing
C18_AnomalyScoreClamped ==
    ret.called =>
        /\ ret.anomaly.anomaly_score = <<ClampedScore(args.normality)>>
        /\ ret.anomaly.anomaly_score[1] \in 0..10000
        /\ \A n \in ScoredNormalities :
              n >= args.normality =>
                 score_event(n, args.pred).anomaly_score[1] <= ret.anomaly.anomaly_score[1]
        /\ clamp(ret.anomaly.anomaly_score[1], 0, 10000) = ret.anomaly.anomaly_score[1]

\* a normality far below the scale scores 100
C18_Witness ==
    /\ ret.called
    /\ args.normality = 0 - FarNormality
    /\ ret.anomaly.anomaly_score = <<10000>>

\* ------------------------------------------------------------------------
\* C19
\* ------------------------------------------------------------------------
\* C19: an evaluation that is counted as an escalation assembles one report
\* and hands it to persistence, and no other evaluation hands one over: each
\* evaluation, those whose generation fails included, adds as much to the
\* escalations counter as to the number of reports handed off
C19_EscalationsMatchReports ==
    ev.called =>
        /\ ev.counted.escalations = (IF ev.handed THEN 1 ELSE 0)
        /\ ev.handed => ev.report # <<>>
        /\ ev.escalated => ev.handed

\* ------------------------------------------------------------------------
\* C20
\* ------------------------------------------------------------------------
\* the characters at offsets 11 and 12 of a timestamp that has them
HourText == SubSeq(args.event.timestamp[1], 12, 13)

\* the timestamp has two digits at offsets 11 and 12
HasHourDigits ==
    /\ args.event.timestamp # NoneStr
    /\ Len(args.event.timestamp[1]) >= 13
    /\ IsDigit(HourText[1]) /\ IsDigit(HourText[2])

\* the timestamp is missing, ends before offset 11, or has a letter there
Unparsable ==
    \/ args.event.timestamp = NoneStr
    \/ Len(args.event.timestamp[1]) < 12
    \/ (Len(args.event.timestamp[1]) >= 13 /\ (IsLetter(HourText[1]) \/ IsLetter(HourText[2])))

\* C20: for every timestamp featurize returns an hour in 0..23: the two
\* digits at offsets 11..12 where the timestamp is well formed, and 12 where
\* the timestamp is missing, empty, too short or not numeric there
C20_HourInRange ==
    ret.called =>
        /\ ret.feats.hour \in 0..23
        /\ (HasHourDigits /\ DigitsValue(HourText) <= 23) => ret.feats.hour = DigitsValue(HourText)
        /\ Unparsable => ret.feats.hour = DefaultHour

\* ------------------------------------------------------------------------
\* C21
\* ------------------------------------------------------------------------
\* the response with its white space and its code fence, if any, removed
Unfenced(t) ==
    LET s0 == Strip(t)
    IN  IF OccursAt(s0, Fence, 0) THEN Strip(DropTrailingFence(DropLeadingFence(s0))) ELSE s0

\* the braces opened and not yet closed in s[i..j]
RECURSIVE Depth(_, _, _)
Depth(s, i, j) ==
    IF j < i THEN 0
    ELSE Depth(s, i, j - 1) + (IF s[j] = "{" THEN 1 ELSE IF s[j] = "}" THEN -1 ELSE 0)

\* the first balanced {...} of s: from the first { to the } that matches it
FirstBalanced(s) ==
    LET opens == {i \in 1..Len(s) : s[i] = "{"}
        i == CHOOSE x \in opens : \A y \in opens : x <= y
        ends == {j \in 1..Len(s) : j > i /\ Depth(s, i, j) = 0}
        j == CHOOSE x \in ends : \A y \in ends : x <= y
    IN  IF opens = {} THEN <<>>
        ELSE IF ends = {} THEN <<>>
        ELSE SubSeq(s, i, j)

\* what the first balanced object of the response decodes to
FirstObject == json_loads(FirstBalanced(Unfenced(rag_in.llm.response)))

\* C21: when the first balanced {...} of the response (code fence removed)
\* is a valid JSON object, the structured output is that object, whatever
\* text stands before or after it
C21_FirstBalancedObjectDecoded ==
    (rag.called /\ ~rag_in.llm.raised /\ FirstObject.ok /\ FirstObject.val.k = "obj") =>
        /\ ~rag.raised
        /\ rag.structured_output = <<FirstObject.val>>

\* ------------------------------------------------------------------------
\* C22
\* ------------------------------------------------------------------------
\* the relations claimed between the counters
CountersOrdered ==
    /\ STATS.phi_events <= STATS.escalations
    /\ STATS.anomalies <= STATS.escalations
    /\ STATS.escalations <= STATS.phi_events + STATS.anomalies
    /\ STATS.escalations <= STATS.events_seen

\* what one evaluation adds: nothing is taken away, and an evaluation that
\* does not escalate adds to events_seen only
CountedOnce ==
    ev.called =>
        /\ \A k \in DOMAIN ev.counted : ev.counted[k] \in {0, 1}
        /\ ev.counted.events_seen = 1
        /\ ev.counted.escalations = 0 =>
              (ev.counted.phi_events = 0 /\ ev.counted.anomalies = 0)

\* the same, for the evaluations that got past load_model
CountersOrderedPastLoad ==
    (ev.called /\ ev.load # "partial") =>
        /\ ev.counted.phi_events <= ev.counted.escalations
        /\ ev.counted.anomalies <= ev.counted.escalations
        /\ ev.counted.escalations <= ev.counted.phi_events + ev.counted.anomalies

\* C22: after any sequence of evaluate_event calls, completed or failed
\* partway, no counter has decreased, phi_events <= escalations,
\* anomalies <= escalations, escalations <= phi_events + anomalies and
\* escalations <= events_seen, and an evaluation that did not escalate added
\* to events_seen only
C22_CountersConsistent ==
    /\ CountersOrdered
    /\ CountedOnce

====
